---- MODULE Spec2Model ----
(***************************************************************************)
(* Model of the copyrighter tool (src/main.go): mainErr loads the notice   *)
(* from copyright.go with firstComment, processDir hands each target file  *)
(* to process and writes it back when process reports a change.            *)
(*                                                                         *)
(* Spec runs the tool over one target file of any content; SpecTree runs   *)
(* it over a tree of directories, with the patterns of copyright.go and    *)
(* with file operations that may fail.                                     *)
(*                                                                         *)
(* A Go string is a sequence of one-character strings; line indices are    *)
(* zero-based as in the code, so line i of the code is lines[i + 1] here.  *)
(***************************************************************************)
EXTENDS Integers, Sequences, FiniteSets, TLC

\* ------------------------------------------------------------------ bounds

\* Most lines a target file starts with.
MaxLines == 3

\* Most runs of the tool over the tree.
MaxRuns == 2

\* ------------------------------------------------------- package strings

NL == "\n"
CR == "\r"
SP == " "
TAB == "\t"

\* unicode.IsSpace, on the characters of the model's alphabet.
IsSpace(c) == c \in {SP, TAB, NL, CR}

\* strings.HasPrefix
HasPrefix(s, prefix) ==
    /\ Len(prefix) <= Len(s)
    /\ SubSeq(s, 1, Len(prefix)) = prefix

\* strings.TrimPrefix
TrimPrefix(s, prefix) ==
    IF HasPrefix(s, prefix) THEN SubSeq(s, Len(prefix) + 1, Len(s)) ELSE s

RECURSIVE TrimLeft(_)
TrimLeft(s) ==
    IF s # <<>> /\ IsSpace(Head(s)) THEN TrimLeft(Tail(s)) ELSE s

RECURSIVE TrimRight(_)
TrimRight(s) ==
    IF s # <<>> /\ IsSpace(s[Len(s)]) THEN TrimRight(SubSeq(s, 1, Len(s) - 1)) ELSE s

\* strings.TrimSpace
TrimSpace(s) == TrimRight(TrimLeft(s))

\* strings.Index, one-based, searching from position i on; 0 when substr
\* does not occur.
RECURSIVE IndexFrom(_, _, _)
IndexFrom(s, substr, i) ==
    IF i + Len(substr) - 1 > Len(s) THEN 0
    ELSE IF SubSeq(s, i, i + Len(substr) - 1) = substr THEN i
    ELSE IndexFrom(s, substr, i + 1)

\* strings.Index, one-based; 0 when substr does not occur.
Index(s, substr) == IndexFrom(s, substr, 1)

\* strings.Contains
Contains(s, substr) == Index(s, substr) # 0

\* strings.Split, for a non-empty separator.
RECURSIVE Split(_, _)
Split(s, sep) ==
    LET i == Index(s, sep) IN
    IF i = 0 THEN <<s>>
    ELSE <<SubSeq(s, 1, i - 1)>> \o Split(SubSeq(s, i + Len(sep), Len(s)), sep)

\* strings.Join
RECURSIVE Join(_, _)
Join(elems, sep) ==
    IF elems = <<>> THEN <<>>
    ELSE IF Len(elems) = 1 THEN elems[1]
    ELSE elems[1] \o sep \o Join(Tail(elems), sep)

\* strings.ReplaceAll, for a non-empty old.
RECURSIVE ReplaceAll(_, _, _)
ReplaceAll(s, old, new) ==
    IF s = <<>> THEN <<>>
    ELSE IF HasPrefix(s, old)
         THEN new \o ReplaceAll(SubSeq(s, Len(old) + 1, Len(s)), old, new)
         ELSE <<Head(s)>> \o ReplaceAll(Tail(s), old, new)

\* unicode.ToLower, on the letters of the model's alphabet.
LowerOf(c) ==
    CASE c = "C" -> "c" [] c = "O" -> "o" [] c = "P" -> "p" [] c = "Y" -> "y"
      [] c = "R" -> "r" [] c = "I" -> "i" [] c = "G" -> "g" [] c = "H" -> "h"
      [] c = "T" -> "t" [] c = "X" -> "x"
      [] OTHER -> c

\* strings.ToLower
ToLower(s) == [i \in 1..Len(s) |-> LowerOf(s[i])]

\* ----------------------------------------------------------- languages

Markers(single, multiBegin, multiEnd) ==
    [single |-> single, multiBegin |-> multiBegin, multiEnd |-> multiEnd]

\* languages[".go"]
LangGo == Markers(<<"/", "/">>, <<"/", "*">>, <<"*", "/">>)

\* languages[".py"]
LangPy == Markers(<<"#">>, <<>>, <<>>)

\* languages[".css"]
LangCss == Markers(<<>>, <<"/", "*">>, <<"*", "/">>)

\* The three kinds of entry of the languages map: both styles, line prefix
\* only, block only.
Languages == {LangGo, LangPy, LangCss}

\* ---------------------------------------------------------- firstComment

\* The value firstComment returns.
Found(comment, ok, fromLine, toLine) ==
    [comment |-> comment, ok |-> ok, fromLine |-> fromLine, toLine |-> toLine]

\* lines[fromLine:toLine] of the code (zero-based, half-open).
Slice(lines, fromLine, toLine) == SubSeq(lines, fromLine + 1, toLine)

\* The inSingle return: every line of the run loses the prefix, then one space.
SingleResult(lines, lang, fromLine, toLine) ==
    LET stripped == [i \in 1..Len(lines) |->
                        IF fromLine < i /\ i <= toLine
                        THEN TrimPrefix(TrimPrefix(lines[i], lang.single), <<SP>>)
                        ELSE lines[i]]
    IN Found(Join(Slice(stripped, fromLine, toLine), <<NL>>), TRUE, fromLine, toLine)

\* MultiResult as it would be if toLine were the index of the closer.
MultiResultAtCloser(lines, fromLine, toLine) ==
    Found(Join(Slice(lines, fromLine + 1, toLine - 1), <<NL>>), TRUE,
          fromLine, toLine - 1)

\* The inMulti return: the lines between the opener and the closer.
MultiResult(lines, fromLine, toLine) ==
    Found(Join(Slice(lines, fromLine + 1, toLine - 1), <<NL>>), TRUE, fromLine, toLine)

\* OpensMulti as it would be if a line only had to begin with the token.
OpensMultiPrefix(trimmedLine, lang) ==
    lang.multiBegin # <<>> /\ HasPrefix(trimmedLine, lang.multiBegin)

\* Whether a line outside any comment opens a block comment.
OpensMulti(trimmedLine, lang) ==
    lang.multiBegin # <<>> /\ trimmedLine = lang.multiBegin

\* Whether a line outside any comment opens a run of line comments.
OpensSingle(trimmedLine, lang) ==
    lang.single # <<>> /\ HasPrefix(trimmedLine, lang.single)

\* What the function returns when the loop runs out of lines.
NotFound(fromLine, toLine) == Found(<<>>, FALSE, fromLine, toLine)

\* The loop of firstComment from line l on; mode is "none", "single" or
\* "multi" for the flags inSingle and inMulti.
RECURSIVE ScanFrom(_, _, _, _, _)
ScanFrom(lines, lang, l, mode, fromLine) ==
    IF l >= Len(lines) THEN NotFound(fromLine, 0)
    ELSE
    LET trimmedLine == TrimSpace(lines[l + 1]) IN
    CASE mode = "none" ->
            IF OpensMulti(trimmedLine, lang)
            THEN ScanFrom(lines, lang, l + 1, "multi", l)
            ELSE IF OpensSingle(trimmedLine, lang)
            THEN ScanFrom(lines, lang, l + 1, "single", l)
            ELSE ScanFrom(lines, lang, l + 1, mode, fromLine)
      [] mode = "single" ->
            IF ~HasPrefix(trimmedLine, lang.single)
            THEN SingleResult(lines, lang, fromLine, l)
            ELSE IF l = Len(lines) - 1
            THEN SingleResult(lines, lang, fromLine, Len(lines))
            ELSE ScanFrom(lines, lang, l + 1, mode, fromLine)
      [] mode = "multi" ->
            IF trimmedLine = lang.multiEnd
            THEN MultiResult(lines, fromLine, l + 1)
            ELSE ScanFrom(lines, lang, l + 1, mode, fromLine)

\* firstComment as it would be if a block comment anywhere in the source
\* were preferred to a run of line comments that opens before it.
firstCommentBlockFirst(source, lang) ==
    LET lines == Split(source, <<NL>>)
        block == ScanFrom(lines, Markers(<<>>, lang.multiBegin, lang.multiEnd),
                          0, "none", 0)
    IN  IF block.ok THEN block ELSE ScanFrom(lines, lang, 0, "none", 0)

\* firstComment as it would be if a blank first line ended the scan.
firstCommentBlankStops(source, lang) ==
    LET lines == Split(source, <<NL>>)
    IN  IF TrimSpace(lines[1]) = <<>>
        THEN NotFound(0, 0)
        ELSE ScanFrom(lines, lang, 0, "none", 0)

firstComment(source, lang) ==
    ScanFrom(Split(source, <<NL>>), lang, 0, "none", 0)

\* --------------------------------------------------------------- process

Copyright == <<"c", "o", "p", "y", "r", "i", "g", "h", "t">>

\* Adjust as it would be if the text were searched without strings.ToLower.
AdjustCaseSensitive(det) ==
    IF det.ok /\ ~Contains(det.comment, Copyright)
    THEN [comment |-> det.comment, ok |-> FALSE, fromLine |-> 0, toLine |-> 0]
    ELSE det

\* The comment process goes on with: a found comment whose text does not
\* mention a copyright is dropped, with its extent.
Adjust(det) ==
    IF det.ok /\ ~Contains(ToLower(det.comment), Copyright)
    THEN Found(det.comment, FALSE, 0, 0)
    ELSE det

\* The line separator of the file.
LineSep(source) ==
    IF Contains(source, <<CR, NL>>) THEN <<CR, NL>> ELSE <<NL>>

\* The two copy loops: lines[i] for fromIdx <= i < toIdx, each followed by
\* "\n" unless it is the last line of the file.
RECURSIVE CopyLines(_, _, _)
CopyLines(lines, fromIdx, toIdx) ==
    IF fromIdx >= toIdx THEN <<>>
    ELSE lines[fromIdx + 1]
            \o (IF fromIdx < Len(lines) - 1 THEN <<NL>> ELSE <<>>)
            \o CopyLines(lines, fromIdx + 1, toIdx)

\* The notice as it is written: its line feeds replaced by the separator.
NoticeFor(notice, lineSep) ==
    IF lineSep # <<NL>> THEN ReplaceAll(notice, <<NL>>, lineSep) ELSE notice

\* newComment
NewComment(lang, notice, lineSep) ==
    LET n == NoticeFor(notice, lineSep) IN
    IF lang.multiBegin # <<>>
    THEN lang.multiBegin \o lineSep \o n \o lineSep \o lang.multiEnd \o lineSep
    ELSE lang.single \o <<SP>>
            \o Join(Split(n, <<NL>>), lineSep \o lang.single \o <<SP>>) \o lineSep

\* The blank line written between an inserted comment and the code.
Separator(lines, fromLine, toLine, lineSep) ==
    IF fromLine = 0 /\ toLine = 0 /\ Len(lines) > 0 /\ lines[1] # <<>>
    THEN lineSep ELSE <<>>

\* The bytes process writes once it has decided to write.
Rewrite(source, lang, notice, adj) ==
    LET lineSep == LineSep(source)
        lines == Split(source, <<NL>>)
    IN  CopyLines(lines, 0, adj.fromLine)
            \o NewComment(lang, notice, lineSep)
            \o Separator(lines, adj.fromLine, adj.toLine, lineSep)
            \o CopyLines(lines, adj.toLine, Len(lines))

\* process as it would be if the comment were compared with the notice
\* after a comment that names no copyright has been dropped.
processCompareLate(source, lang, notice) ==
    LET det == firstComment(source, lang)
        adj == Adjust(det)
    IN  IF adj.ok /\ adj.comment = notice
        THEN [ok |-> FALSE, written |-> <<>>, det |-> det]
        ELSE [ok |-> TRUE, written |-> Rewrite(source, lang, notice, adj), det |-> det]

\* process: ok is the value returned, written the bytes given to the writer,
\* det what firstComment returned.
process(source, lang, notice) ==
    LET det == firstComment(source, lang)
        adj == Adjust(det)
    IN  IF det.ok /\ det.comment = notice
        THEN [ok |-> FALSE, written |-> <<>>, det |-> det]
        ELSE [ok |-> TRUE, written |-> Rewrite(source, lang, notice, adj), det |-> det]

\* ---------------------------------------------------------------- inputs

\* Lines a target file is made of, per language. Both styles: a blank
\* line, the block delimiters alone on a line, line comments with and
\* without a copyright, the one-line block form, and code followed by a
\* trailing comment. Line comments only: a blank line, line comments with
\* and without a copyright, an indented line comment, and code followed by
\* a trailing comment. Blocks only: a blank line, text, text followed by a
\* space, the block delimiters alone on a line, and text naming a
\* copyright in capitals.
LineChoices(lang) ==
    IF lang = LangGo THEN
        { <<>>, <<"/", "*">>, <<"*", "/">>,
          <<"/", "/", SP, "x">>,
          <<"/", "/", SP, "C", "o", "p", "y", "r", "i", "g", "h", "t">>,
          <<"/", "*", SP, "x", SP, "*", "/">>,
          <<"x", SP, "/", "/", SP, "x">> }
    ELSE IF lang = LangPy THEN
        { <<>>,
          <<"#", SP, "x">>,
          <<SP, "#", SP, "x">>,
          <<"#", SP, "C", "o", "p", "y", "r", "i", "g", "h", "t">>,
          <<"x", SP, "#", SP, "x">> }
    ELSE
        { <<>>, <<"x">>, <<"x", SP>>, <<"/", "*">>, <<"*", "/">>,
          <<"C", "O", "P", "Y", "R", "I", "G", "H", "T">> }

\* The two line-ending conventions of a file.
LineEndings == { <<NL>>, <<CR, NL>> }

\* The target files of a language: up to MaxLines lines joined by one of
\* the line endings (a last line that is blank is a trailing line break).
Sources(lang) ==
    { Join(ls, eol) :
        ls \in UNION { [1..n -> LineChoices(lang)] : n \in 1..MaxLines },
        eol \in LineEndings }

\* Contents of copyright.go: a block notice, a two-line notice in line
\* comments with the year placeholder, a notice that names no copyright,
\* and no comment at all.
CanonSources ==
    { <<"/", "*", NL, "C", "o", "p", "y", "r", "i", "g", "h", "t", NL, "*", "/", NL>>,
      <<"/", "/", SP, "C", "o", "p", "y", "r", "i", "g", "h", "t", NL,
        "/", "/", SP, "Y", "Y", "Y", "Y", NL>>,
      <<"/", "*", NL, "x", NL, "*", "/", NL>>,
      <<"x", NL>> }

\* The placeholder of the year and strconv.Itoa(time.Now().Year()).
YearMark == <<"Y", "Y", "Y", "Y">>
Year == <<"2", "0", "2", "6">>

\* ----------------------------------------------------------------- state

VARIABLES
    copyrightGo,    \* the bytes of copyright.go
    lang,           \* the comment markers of the target file's extension
    file,           \* the bytes of the target file on disk
    notice,         \* the notice mainErr loaded
    pc,             \* "main": before a run; "dir": in processDir; "failed"
    err,            \* the error mainErr returned, "" for none
    runs,           \* the runs of the tool completed
    calls,          \* one record per call of process, in order
    readable,       \* whether os.ReadFile("copyright.go") succeeds
    disk,           \* the files of the tree: path -> bytes
    stack,          \* the calls of processDir in progress, innermost last
    ops             \* what processDir did to the tree so far, in order

vars == <<copyrightGo, lang, file, notice, pc, err, runs, calls,
          readable, disk, stack, ops>>

\* What a run over one target file leaves alone.
treeVars == <<readable, disk, stack, ops>>

Init ==
    /\ copyrightGo \in CanonSources
    /\ lang \in Languages
    /\ file \in Sources(lang)
    /\ notice = <<>>
    /\ pc = "main"
    /\ err = ""
    /\ runs = 0
    /\ calls = <<>>
    /\ readable = TRUE
    /\ disk = <<>>
    /\ stack = <<>>
    /\ ops = <<>>

\* mainErr up to its call of processDir, when copyright.go holds no comment.
MainErrNoComment ==
    /\ pc = "main"
    /\ runs < MaxRuns
    /\ readable
    /\ ~firstComment(copyrightGo, LangGo).ok
    /\ pc' = "failed"
    /\ err' = "no comment found in copyright.go"
    /\ UNCHANGED <<copyrightGo, lang, file, notice, runs, calls>>
    /\ UNCHANGED treeVars

\* mainErr up to its call of processDir, when the notice is found.
MainErrLoad ==
    /\ pc = "main"
    /\ runs < MaxRuns
    /\ readable
    /\ \E found \in {firstComment(copyrightGo, LangGo)} :
        /\ found.ok
        /\ notice' = ReplaceAll(found.comment, YearMark, Year)
    /\ pc' = "dir"
    /\ UNCHANGED <<copyrightGo, lang, file, err, runs, calls>>
    /\ UNCHANGED treeVars

\* processDir on the target file: read it, process it, and write it back
\* when process reports a change; then mainErr returns.
ProcessDir ==
    /\ pc = "dir"
    /\ \E r \in {process(file, lang, notice)} :
        /\ calls' = Append(calls, [source |-> file, ok |-> r.ok,
                                   written |-> r.written, det |-> r.det])
        /\ file' = IF r.ok THEN r.written ELSE file
    /\ pc' = "main"
    /\ runs' = runs + 1
    /\ UNCHANGED <<copyrightGo, lang, notice, err>>
    /\ UNCHANGED treeVars

Next == MainErrNoComment \/ MainErrLoad \/ ProcessDir

Spec == Init /\ [][Next]_vars

\* ------------------------------------------------------- file patterns

\* The prefixes of the lines of copyright.go that hold a pattern.
IncludeMark == <<"/", "/", SP, "+", SP>>
ExcludeMark == <<"/", "/", SP, "-", SP>>

\* The regular expression mainErr builds from the text of a pattern, as a
\* sequence of tokens: "BOL" for ^, "EOL" for $, "ANY" for .*, and a
\* character for itself (a slash or a quoted character).
RECURSIVE CompileFrom(_, _)
CompileFrom(body, k) ==
    IF k > Len(body) THEN <<"EOL">>
    ELSE (IF k = 1 /\ body[k] = "/" THEN <<"BOL">>
          ELSE IF k = 1 THEN <<"/">>
          ELSE <<>>)
         \o (IF body[k] = "*" THEN <<"ANY">> ELSE <<body[k]>>)
         \o CompileFrom(body, k + 1)

Compile(body) == CompileFrom(body, 1)

\* regexp.MatchString for these expressions: a match may start anywhere.
RECURSIVE MatchHere(_, _, _)
MatchHere(exp, s, pos) ==
    IF exp = <<>> THEN TRUE
    ELSE IF Head(exp) = "BOL" THEN pos = 0 /\ MatchHere(Tail(exp), s, pos)
    ELSE IF Head(exp) = "EOL" THEN pos = Len(s) /\ MatchHere(Tail(exp), s, pos)
    ELSE IF Head(exp) = "ANY"
    THEN \E k \in pos..Len(s) : MatchHere(Tail(exp), s, k)
    ELSE pos < Len(s) /\ s[pos + 1] = Head(exp) /\ MatchHere(Tail(exp), s, pos + 1)

MatchString(exp, s) == \E pos \in 0..Len(s) : MatchHere(exp, s, pos)

\* The patterns of copyright.go, in the order of their lines.
RECURSIVE PatternsOf(_)
PatternsOf(lines) ==
    IF lines = <<>> THEN <<>>
    ELSE LET line == Head(lines)
             op == IF HasPrefix(line, IncludeMark) THEN "+"
                   ELSE IF HasPrefix(line, ExcludeMark) THEN "-"
                   ELSE ""
         IN  (IF op = "" THEN <<>>
              ELSE << [Op |-> op, Exp |-> Compile(SubSeq(line, 6, Len(line)))] >>)
             \o PatternsOf(Tail(lines))

Patterns(source) == PatternsOf(Split(source, <<NL>>))

\* The loop over the patterns as it would be if the first match decided.
RECURSIVE IgnoreLoopFirstMatch(_, _, _, _)
IgnoreLoopFirstMatch(patterns, k, target, ignore) ==
    IF k > Len(patterns) THEN ignore
    ELSE IF MatchString(patterns[k].Exp, target)
    THEN patterns[k].Op = "-"
    ELSE IgnoreLoopFirstMatch(patterns, k + 1, target, ignore)

\* The loop of processDir over the patterns from the k-th on: each pattern
\* that matches sets ignore.
RECURSIVE IgnoreLoop(_, _, _, _)
IgnoreLoop(patterns, k, target, ignore) ==
    IF k > Len(patterns) THEN ignore
    ELSE IF MatchString(patterns[k].Exp, target)
    THEN IgnoreLoop(patterns, k + 1, target,
                    IF patterns[k].Op = "-" THEN TRUE
                    ELSE IF patterns[k].Op = "+" THEN FALSE
                    ELSE ignore)
    ELSE IgnoreLoop(patterns, k + 1, target, ignore)

\* ------------------------------------------------------------ the tree

Dot == <<".">>
Slash == <<"/">>
NameA == <<"a", ".", "g", "o">>
NameB == <<"b", ".", "t", "x", "t">>
NameC == <<"c", ".", "g", "o">>
NameD == <<"d", ".", "c", "s", "s">>
NameZ == <<"z", ".", "p", "y">>
NameLib == <<"l", "i", "b">>
NameSub == <<"s", "u", "b">>
NameCopyright == <<"c", "o", "p", "y", "r", "i", "g", "h", "t", ".", "g", "o">>

\* filepath.Join(dirPath, name) for a name without separators.
PathJoin(dirPath, name) ==
    IF dirPath = Dot THEN name ELSE dirPath \o Slash \o name

\* filepath.Ext(name): from the last dot on, empty without a dot.
Ext(name) ==
    LET dots == {k \in 1..Len(name) : name[k] = "."}
    IN  IF dots = {} THEN <<>>
        ELSE SubSeq(name, CHOOSE k \in dots : \A m \in dots : m <= k, Len(name))

\* The entries of the languages map for the extensions of the tree.
KnownExt(ext) ==
    ext \in { <<".", "g", "o">>, <<".", "p", "y">>, <<".", "c", "s", "s">> }

LanguageOf(ext) ==
    IF ext = <<".", "g", "o">> THEN LangGo
    ELSE IF ext = <<".", "p", "y">> THEN LangPy
    ELSE LangCss

\* The directories of the tree and the names each may hold, in the order
\* os.ReadDir returns them (sorted by name).
TreeDirs == {Dot, NameLib, NameSub}

NamesIn(dirPath) ==
    IF dirPath = Dot
    THEN <<NameA, NameB, NameCopyright, NameLib, NameSub, NameZ>>
    ELSE IF dirPath = NameLib THEN <<NameD>>
    ELSE <<NameC, NameCopyright>>

IsDir(path) == path \in TreeDirs

\* os.ReadDir(dirPath) on the tree whose files are the domain of files (the
\* copyright.go of the root is always there).
ReadDir(dirPath, files) ==
    SelectSeq(NamesIn(dirPath),
              LAMBDA name : \/ IsDir(PathJoin(dirPath, name))
                            \/ PathJoin(dirPath, name) \in files
                            \/ PathJoin(dirPath, name) = NameCopyright)

\* The text that marks the copyright.go of a project of its own.
Marker ==
    <<"g", "i", "t", "h", "u", "b", ".", "c", "o", "m", "/",
      "m", "i", "c", "r", "o", "b", "u", "s", "-", "i", "o", "/",
      "c", "o", "p", "y", "r", "i", "g", "h", "t", "e", "r">>

\* -------------------------------------------------------- tree inputs

\* The notice of the copyright.go of a tree, and a line holding a pattern.
NoticeBlock ==
    <<"/", "*", NL, "C", "o", "p", "y", "r", "i", "g", "h", "t", NL, "*", "/", NL>>

Exclude(body) == ExcludeMark \o body \o <<NL>>
Include(body) == IncludeMark \o body \o <<NL>>

\* Contents of the copyright.go of a tree: no pattern; every name with a
\* dot excluded and *.go included again; the directory /sub excluded and
\* c.go included after it; everything excluded and /a.go included again;
\* and a file without a comment.
TreeCanonSources ==
    { NoticeBlock,
      NoticeBlock \o Exclude(<<"*", ".", "*">>) \o Include(<<"*", ".", "g", "o">>),
      NoticeBlock \o Exclude(Slash \o NameSub) \o Include(NameC),
      NoticeBlock \o Exclude(<<"*">>) \o Include(Slash \o NameA),
      <<"x", NL>> }

\* Contents of a .go file of the tree: code alone, and code under the notice.
GoChoices == { <<"x", NL>>, NoticeBlock \o <<NL, "x", NL>> }

\* What sub/copyright.go may be: absent, the copyright.go of a project of
\* its own, or a file that does not name the tool.
NestedChoices ==
    { <<>>,
      (PathJoin(NameSub, NameCopyright) :>
            (<<"/", "/", "g", "o", ":", "g", "e", "n", "e", "r", "a", "t", "e", SP>>
             \o Marker \o <<NL>>)),
      (PathJoin(NameSub, NameCopyright) :> <<"x", NL>>) }

\* The trees a run starts on.
TreeDisks ==
    { (NameA :> a) @@ (NameB :> <<"x", NL>>) @@ (NameZ :> <<"x", NL>>)
        @@ (PathJoin(NameLib, NameD) :> <<"x", NL>>)
        @@ (PathJoin(NameSub, NameC) :> c) @@ nested :
        a \in GoChoices, c \in GoChoices, nested \in NestedChoices }

\* -------------------------------------------------------- tree actions

TreeInit ==
    /\ readable \in BOOLEAN
    /\ copyrightGo \in (IF readable THEN TreeCanonSources ELSE {<<>>})
    /\ lang = LangGo
    /\ file = <<>>
    /\ notice = <<>>
    /\ pc = "main"
    /\ err = ""
    /\ runs = 0
    /\ calls = <<>>
    /\ disk \in TreeDisks
    /\ stack = <<>>
    /\ ops = <<>>

\* What a step of processDir leaves alone.
mainVars == <<copyrightGo, lang, file, notice, calls, readable>>

\* An entry of ops: what was done, to which path, whether it succeeded, and
\* the bytes written.
Op(op, path, ok, bytes) == [op |-> op, path |-> path, ok |-> ok, bytes |-> bytes]

\* A call of processDir in progress: the entries read, the index of the
\* next entry, the sub directories collected and the index of the next one.
Frame(dirPath, entries) ==
    [dir |-> dirPath, entries |-> entries, i |-> 1, subDirs |-> <<>>, j |-> 1]

Top == stack[Len(stack)]

SetTop(frame) == [stack EXCEPT ![Len(stack)] = frame]

\* mainErr as it would be if the error of os.ReadFile were not returned.
MainErrUnreadableGoesOn ==
    /\ pc = "main"
    /\ runs < MaxRuns
    /\ ~readable
    /\ pc' = "dir"
    /\ UNCHANGED <<copyrightGo, lang, file, notice, err, runs, calls>>
    /\ UNCHANGED treeVars

\* mainErr when copyright.go cannot be read.
MainErrUnreadable ==
    /\ pc = "main"
    /\ runs < MaxRuns
    /\ ~readable
    /\ pc' = "failed"
    /\ err' = "unable to read copyright.go"
    /\ UNCHANGED <<copyrightGo, lang, file, notice, runs, calls>>
    /\ UNCHANGED treeVars

\* A call of processDir is due: the one of mainErr on ".", or the next of
\* the loop over the sub directories.
CanCall ==
    /\ pc = "dir"
    /\ IF stack = <<>> THEN TRUE
       ELSE Top.i > Len(Top.entries) /\ Top.j <= Len(Top.subDirs)

CallPath ==
    IF stack = <<>> THEN Dot ELSE PathJoin(Top.dir, Top.subDirs[Top.j])

\* Whether a directory holds the copyright.go of a project of its own.
OwnProject(dirPath) ==
    /\ dirPath # Dot
    /\ PathJoin(dirPath, NameCopyright) \in DOMAIN disk
    /\ Contains(disk[PathJoin(dirPath, NameCopyright)], Marker)

\* processDir returns at once on a directory with its own copyright.go.
SkipOwnProject ==
    /\ CanCall
    /\ OwnProject(CallPath)
    /\ ops' = Append(ops, Op("skip", CallPath, TRUE, <<>>))
    /\ stack' = SetTop([Top EXCEPT !.j = @ + 1])
    /\ UNCHANGED <<pc, err, runs, disk>>
    /\ UNCHANGED mainVars

\* processDir reads the entries of the directory.
ListDir ==
    /\ CanCall
    /\ ~OwnProject(CallPath)
    /\ ops' = Append(ops, Op("list", CallPath, TRUE, <<>>))
    /\ stack' = Append(stack, Frame(CallPath, ReadDir(CallPath, DOMAIN disk)))
    /\ UNCHANGED <<pc, err, runs, disk>>
    /\ UNCHANGED mainVars

\* os.ReadDir fails: processDir returns the error, and so does every caller.
ListDirFails ==
    /\ CanCall
    /\ ~OwnProject(CallPath)
    /\ ops' = Append(ops, Op("list", CallPath, FALSE, <<>>))
    /\ stack' = <<>>
    /\ pc' = "failed"
    /\ err' = "unable to read files"
    /\ UNCHANGED <<runs, disk>>
    /\ UNCHANGED mainVars

\* The loop over the entries has an entry to look at.
AtEntry ==
    /\ pc = "dir"
    /\ stack # <<>>
    /\ Top.i <= Len(Top.entries)

EntryName == Top.entries[Top.i]

FileName == PathJoin(Top.dir, EntryName)

\* The value of ignore once the patterns are through and copyright.go of
\* the root is set aside.
Ignore(fileName) ==
    \/ fileName = NameCopyright
    \/ IgnoreLoop(Patterns(copyrightGo), 1, Slash \o fileName, FALSE)

\* An entry the patterns set aside.
IgnoreEntry ==
    /\ AtEntry
    /\ Ignore(FileName)
    /\ ops' = Append(ops, Op("ignore", FileName, TRUE, <<>>))
    /\ stack' = SetTop([Top EXCEPT !.i = @ + 1])
    /\ UNCHANGED <<pc, err, runs, disk>>
    /\ UNCHANGED mainVars

\* A sub directory is kept for the second loop.
CollectSubDir ==
    /\ AtEntry
    /\ ~Ignore(FileName)
    /\ IsDir(FileName)
    /\ ops' = Append(ops, Op("collect", FileName, TRUE, <<>>))
    /\ stack' = SetTop([Top EXCEPT !.i = @ + 1, !.subDirs = Append(@, EntryName)])
    /\ UNCHANGED <<pc, err, runs, disk>>
    /\ UNCHANGED mainVars

\* A file whose extension is not in the languages map.
DisregardEntry ==
    /\ AtEntry
    /\ ~Ignore(FileName)
    /\ ~IsDir(FileName)
    /\ ~KnownExt(Ext(EntryName))
    /\ ops' = Append(ops, Op("disregard", FileName, TRUE, <<>>))
    /\ stack' = SetTop([Top EXCEPT !.i = @ + 1])
    /\ UNCHANGED <<pc, err, runs, disk>>
    /\ UNCHANGED mainVars

\* The entry is a file to process.
IsTarget ==
    /\ AtEntry
    /\ ~Ignore(FileName)
    /\ ~IsDir(FileName)
    /\ KnownExt(Ext(EntryName))

\* ReadFails as it would be if the loop went on to the next entry.
ReadFailsGoesOn ==
    /\ IsTarget
    /\ ops' = Append(ops, Op("read", FileName, FALSE, <<>>))
    /\ stack' = SetTop([Top EXCEPT !.i = @ + 1])
    /\ UNCHANGED <<pc, err, runs, disk>>
    /\ UNCHANGED mainVars

\* os.ReadFile fails on the file: processDir returns the error.
ReadFails ==
    /\ IsTarget
    /\ ops' = Append(ops, Op("read", FileName, FALSE, <<>>))
    /\ stack' = <<>>
    /\ pc' = "failed"
    /\ err' = "unable to read file"
    /\ UNCHANGED <<runs, disk>>
    /\ UNCHANGED mainVars

\* The file is read and processed, and written back when process reports a
\* change.
ProcessFile ==
    /\ IsTarget
    /\ \E r \in {process(disk[FileName], LanguageOf(Ext(EntryName)), notice)} :
        /\ ops' = IF r.ok
                  THEN ops \o << Op("read", FileName, TRUE, <<>>),
                                 Op("write", FileName, TRUE, r.written) >>
                  ELSE Append(ops, Op("read", FileName, TRUE, <<>>))
        /\ disk' = IF r.ok THEN [disk EXCEPT ![FileName] = r.written] ELSE disk
    /\ stack' = SetTop([Top EXCEPT !.i = @ + 1])
    /\ UNCHANGED <<pc, err, runs>>
    /\ UNCHANGED mainVars

\* os.WriteFile fails: processDir returns the error; the file is as it was
\* or truncated.
WriteFails ==
    /\ IsTarget
    /\ \E r \in {process(disk[FileName], LanguageOf(Ext(EntryName)), notice)} :
        /\ r.ok
        /\ ops' = ops \o << Op("read", FileName, TRUE, <<>>),
                            Op("write", FileName, FALSE, r.written) >>
    /\ disk' \in {disk, [disk EXCEPT ![FileName] = <<>>]}
    /\ stack' = <<>>
    /\ pc' = "failed"
    /\ err' = "failed to write back"
    /\ UNCHANGED runs
    /\ UNCHANGED mainVars

\* Both loops of a call are through: processDir returns nil, to the loop of
\* its caller or to mainErr, which returns nil as well.
ReturnDir ==
    /\ pc = "dir"
    /\ stack # <<>>
    /\ Top.i > Len(Top.entries)
    /\ Top.j > Len(Top.subDirs)
    /\ IF Len(stack) = 1
       THEN /\ stack' = <<>>
            /\ pc' = "main"
            /\ runs' = runs + 1
       ELSE /\ stack' = [SubSeq(stack, 1, Len(stack) - 1)
                            EXCEPT ![Len(stack) - 1].j = @ + 1]
            /\ UNCHANGED <<pc, runs>>
    /\ UNCHANGED <<err, disk, ops>>
    /\ UNCHANGED mainVars

TreeNext ==
    \/ MainErrUnreadable
    \/ MainErrNoComment
    \/ MainErrLoad
    \/ SkipOwnProject
    \/ ListDir
    \/ ListDirFails
    \/ IgnoreEntry
    \/ CollectSubDir
    \/ DisregardEntry
    \/ ReadFails
    \/ ProcessFile
    \/ WriteFails
    \/ ReturnDir

SpecTree == TreeInit /\ [][TreeNext]_vars

\* ---------------------------------------------------------------- claims

Calls == 1..Len(calls)

LinesOf(source) == Split(source, <<NL>>)

\* The comment of a call mentions a copyright, in any letter case.
NamesCopyright(text) == Contains(ToLower(text), Copyright)

\* A call replaces the comment it found: the comment differs from the notice
\* and names a copyright.
Replaces(c) == c.det.ok /\ c.det.comment # notice /\ NamesCopyright(c.det.comment)

\* The span of the comment a call replaces, (0, 0) when it replaces none.
SpanStart(c) == IF Replaces(c) THEN c.det.fromLine ELSE 0
SpanEnd(c) == IF Replaces(c) THEN c.det.toLine ELSE 0

\* The number of bytes of the source that its first n lines take, each with
\* its line feed.
RECURSIVE BytesOfLines(_, _)
BytesOfLines(lines, n) ==
    IF n = 0 THEN 0 ELSE BytesOfLines(lines, n - 1) + Len(lines[n]) + 1

Min(a, b) == IF a < b THEN a ELSE b

\* The bytes of the source before line n, and from line n on.
Before(source, n) ==
    SubSeq(source, 1, Min(Len(source), BytesOfLines(LinesOf(source), n)))
From(source, n) ==
    SubSeq(source, Min(Len(source), BytesOfLines(LinesOf(source), n)) + 1, Len(source))

\* The notice with its lines joined by the separator of the file.
NoticeIn(sep) == Join(Split(notice, <<NL>>), sep)

\* The comment block a rewrite is to hold, by the style of the language.
BlockShape(sep) ==
    IF lang.multiBegin # <<>>
    THEN lang.multiBegin \o sep \o NoticeIn(sep) \o sep \o lang.multiEnd \o sep
    ELSE LET ls == Split(notice, <<NL>>) IN
         Join([i \in 1..Len(ls) |-> lang.single \o <<SP>> \o ls[i]], sep) \o sep

\* What a call wrote between the lines it copied before and after.
Emitted(c) ==
    LET pre == Len(Before(c.source, SpanStart(c)))
        suf == Len(From(c.source, SpanEnd(c)))
    IN  SubSeq(c.written, pre + 1, Len(c.written) - suf)

\* A line without its trailing carriage return.
NoCR(line) ==
    IF line # <<>> /\ line[Len(line)] = CR THEN SubSeq(line, 1, Len(line) - 1) ELSE line

\* C1: after a run that rewrote the file, the next run finds the notice as
\* the first comment, reports no change, writes nothing and leaves the file.
C1_Idempotent ==
    \A i \in Calls :
        (i > 1 /\ calls[i - 1].ok) =>
            /\ calls[i].source = calls[i - 1].written
            /\ calls[i].det.ok
            /\ calls[i].det.comment = notice
            /\ ~calls[i].ok
            /\ calls[i].written = <<>>

\* C2: when no comment was found in the source, scanning what process wrote
\* finds a comment whose text is the notice.
C2_RoundTrip ==
    \A i \in Calls :
        (calls[i].ok /\ ~calls[i].det.ok) =>
            LET again == firstComment(calls[i].written, lang) IN
            again.ok /\ again.comment = notice

\* C3: a rewrite is the source before the replaced span, the new comment,
\* at most one separator line, and the source from the end of the span on.
C3_Frame ==
    \A i \in Calls :
        calls[i].ok =>
            LET c == calls[i]
                sep == LineSep(c.source)
            IN  \E blank \in {<<>>, sep} :
                    c.written = Before(c.source, SpanStart(c))
                                    \o NewComment(lang, notice, sep) \o blank
                                    \o From(c.source, SpanEnd(c))

\* C4: a found comment that differs from the notice and names no copyright
\* stays, with the whole source, after the new comment; one that names a
\* copyright in any letter case gives its lines to the new comment.
C4_UnrelatedKept ==
    \A i \in Calls :
        LET c == calls[i]
            sep == LineSep(c.source)
        IN  (c.det.ok /\ c.det.comment # notice) =>
                /\ c.ok
                /\ IF NamesCopyright(c.det.comment)
                   THEN c.written = Before(c.source, c.det.fromLine)
                                        \o NewComment(lang, notice, sep)
                                        \o From(c.source, c.det.toLine)
                   ELSE \E blank \in {<<>>, sep} :
                            c.written = NewComment(lang, notice, sep) \o blank \o c.source

\* C4's case: an unrelated comment that was found and kept.
C4_Witness ==
    \E i \in Calls :
        /\ calls[i].det.ok
        /\ calls[i].det.comment # <<>>
        /\ calls[i].det.comment # notice
        /\ ~NamesCopyright(calls[i].det.comment)
        /\ calls[i].ok

\* C5: when the first comment is the notice, process reports no change and
\* writes nothing, and the file keeps its bytes.
C5_NoOp ==
    \A i \in Calls :
        (calls[i].det.ok /\ calls[i].det.comment = notice) =>
            /\ ~calls[i].ok
            /\ calls[i].written = <<>>
            /\ IF i < Len(calls)
               THEN calls[i + 1].source = calls[i].source
               ELSE file = calls[i].source

\* C5's case: a comment in line style that equals a notice naming no
\* copyright, left alone.
C5_Witness ==
    \E i \in Calls :
        /\ calls[i].det.ok
        /\ calls[i].det.comment = notice
        /\ ~NamesCopyright(notice)
        /\ lang.single # <<>>
        /\ HasPrefix(LinesOf(calls[i].source)[calls[i].det.fromLine + 1], lang.single)
        /\ ~calls[i].ok
        /\ file = calls[i].source

\* C6: a rewrite holds the separator line exactly when it replaces no
\* comment and the first line of the source is not blank.
C6_Separator ==
    \A i \in Calls :
        calls[i].ok =>
            LET c == calls[i]
                sep == LineSep(c.source)
                block == NewComment(lang, notice, sep)
                insert == ~Replaces(c)
                blankFirst == NoCR(LinesOf(c.source)[1]) = <<>>
            IN  Emitted(c) = (IF insert /\ ~blankFirst THEN block \o sep ELSE block)

\* C7: the line breaks of the new comment and of the separator line are
\* all the separator of the file: "\r\n", never bare or after a second
\* "\r", when the source holds "\r\n", and "\n" otherwise.
C7_LineEndings ==
    \A i \in Calls :
        calls[i].ok =>
            LET e == Emitted(calls[i]) IN
            IF Contains(calls[i].source, <<CR, NL>>)
            THEN /\ \A k \in 1..Len(e) : e[k] = NL => (k > 1 /\ e[k - 1] = CR)
                 /\ ~Contains(e, <<CR, CR>>)
            ELSE ~Contains(e, <<CR>>)

\* C8: the new comment is the block form for a language with a block start
\* token and the prefixed lines of the notice for a line-prefix language;
\* it follows some number of whole lines of the source.
C8_Shape ==
    \A i \in Calls :
        calls[i].ok =>
            LET c == calls[i]
                shape == BlockShape(LineSep(c.source))
            IN  \E k \in 0..Len(LinesOf(c.source)) :
                    LET pre == Before(c.source, k) IN
                    /\ HasPrefix(c.written, pre)
                    /\ HasPrefix(SubSeq(c.written, Len(pre) + 1, Len(c.written)), shape)

\* C9: a scan that finds no comment returns no text and the line indices 0, 0.
C9_ZeroOnFail ==
    \A i \in Calls :
        ~calls[i].det.ok =>
            /\ calls[i].det.comment = <<>>
            /\ calls[i].det.fromLine = 0
            /\ calls[i].det.toLine = 0

\* A line that is a comment opener: its trimmed content is the block start
\* token, or begins with the line prefix.
ProperOpener(line) ==
    \/ lang.multiBegin # <<>> /\ TrimSpace(line) = lang.multiBegin
    \/ lang.single # <<>> /\ HasPrefix(TrimSpace(line), lang.single)

\* A line that carries a comment token without being an opener.
TokenBesideText(line) ==
    /\ ~ProperOpener(line)
    /\ \/ lang.multiBegin # <<>> /\ Contains(line, lang.multiBegin)
       \/ lang.single # <<>> /\ Contains(line, lang.single)

LastCall == IF pc = "main" /\ calls # <<>> THEN {Len(calls)} ELSE {}

\* Whether line k (zero-based) of lines ends a run of line comments that
\* started earlier: it is past the last line, or does not begin with the
\* prefix once trimmed.
EndsRun(lines, k) ==
    k >= Len(lines) \/ ~HasPrefix(TrimSpace(lines[k + 1]), lang.single)

\* C11: the comment returned starts at the lowest line that opens a comment,
\* the block test deciding its kind before the line-prefix test, and it ends
\* at the first line that terminates it, so that no later comment is
\* returned or merged into it.
C11_FirstOnly ==
    \A i \in LastCall :
        \A d \in {calls[i].det}, lines \in {LinesOf(calls[i].source)} :
            d.ok =>
            /\ ProperOpener(lines[d.fromLine + 1])
            /\ \A k \in 1..d.fromLine : ~ProperOpener(lines[k])
            /\ IF lang.multiBegin # <<>>
                  /\ TrimSpace(lines[d.fromLine + 1]) = lang.multiBegin
               THEN /\ TrimSpace(lines[d.toLine]) = lang.multiEnd
                    /\ \A k \in (d.fromLine + 2)..(d.toLine - 1) :
                          TrimSpace(lines[k]) # lang.multiEnd
               ELSE /\ EndsRun(lines, d.toLine)
                    /\ \A k \in (d.fromLine + 1)..(d.toLine - 1) :
                          ~EndsRun(lines, k)

\* C11's case: a comment is returned, and a later line of the source opens
\* another comment.
C11_Witness ==
    \E i \in Calls :
        LET d == calls[i].det
            lines == LinesOf(calls[i].source)
        IN  /\ d.ok
            /\ \E k \in (d.toLine + 1)..Len(lines) : ProperOpener(lines[k])

\* Whether the first comment of lines opens at line f (one-based) as a run
\* of line comments that goes on to the last line of the input.
RunReachesEnd(lines, f) ==
    /\ lang.single # <<>>
    /\ \A k \in 1..(f - 1) : ~ProperOpener(lines[k])
    /\ \A k \in f..Len(lines) : HasPrefix(TrimSpace(lines[k]), lang.single)

\* C15: a run of line comments that reaches the end of the input is found,
\* with toLine the number of lines, also when the opening line is the last
\* line of the input.
C15_RunToEnd ==
    \A i \in Calls :
        LET d == calls[i].det
            lines == LinesOf(calls[i].source)
        IN  \A f \in 1..Len(lines) :
                RunReachesEnd(lines, f) =>
                    /\ d.ok
                    /\ d.fromLine = f - 1
                    /\ d.toLine = Len(lines)

\* What a line of a run of line comments gives to the decoded text: what
\* follows the prefix and one space, the indentation before the prefix
\* dropped.
Remainder(line) ==
    TrimPrefix(TrimPrefix(TrimLeft(line), lang.single), <<SP>>)

\* Whether the comment found is a run of line comments.
IsRun(lines, d) ==
    d.ok /\ ~(lang.multiBegin # <<>> /\ TrimSpace(lines[d.fromLine + 1]) = lang.multiBegin)

\* C16: the text decoded from a run of line comments is, line for line, the
\* remainder after the prefix and at most one space, joined with "\n";
\* neither the prefix nor the indentation before it stays in the text.
C16_DecodeRun ==
    \A i \in Calls :
        LET d == calls[i].det
            lines == LinesOf(calls[i].source)
        IN  IsRun(lines, d) =>
                d.comment = Join([k \in 1..(d.toLine - d.fromLine) |->
                                    Remainder(lines[d.fromLine + k])], <<NL>>)

\* A line without its trailing spaces.
RECURSIVE TrimTrailingSpaces(_)
TrimTrailingSpaces(line) ==
    IF line # <<>> /\ line[Len(line)] = SP
    THEN TrimTrailingSpaces(SubSeq(line, 1, Len(line) - 1))
    ELSE line

\* Whether the comment found is a block comment.
IsBlock(lines, d) ==
    d.ok /\ lang.multiBegin # <<>> /\ TrimSpace(lines[d.fromLine + 1]) = lang.multiBegin

\* C17: the text decoded from a block comment is the lines strictly between
\* the opener and the closer, each without its trailing spaces and with its
\* leading whitespace, joined with "\n"; toLine is the closer's index + 1.
C17_DecodeBlock ==
    \A i \in Calls :
        LET d == calls[i].det
            lines == LinesOf(calls[i].source)
        IN  IsBlock(lines, d) =>
                /\ TrimSpace(lines[d.toLine]) = lang.multiEnd
                /\ d.comment = Join([k \in 1..(d.toLine - d.fromLine - 2) |->
                                        TrimTrailingSpaces(lines[d.fromLine + 1 + k])],
                                    <<NL>>)

\* Whether the first line of lines is blank.
BlankFirst(lines) == TrimSpace(lines[1]) = <<>>

\* C18 (as stated): when the first line of the source is blank, no comment
\* is found, whatever follows.
C18_BlankNotFound ==
    \A i \in Calls :
        BlankFirst(LinesOf(calls[i].source)) => ~calls[i].det.ok

\* C18 (amended): a blank first line is passed over; the scan reports what
\* it reports for the lines after it, one line further down.
C18_BlankSkipped ==
    \A i \in LastCall :
        \A d \in {calls[i].det}, lines \in {LinesOf(calls[i].source)} :
            (BlankFirst(lines) /\ Len(lines) > 1) =>
                \E rest \in {firstComment(Join(Tail(lines), <<NL>>), lang)} :
                    /\ d.ok = rest.ok
                    /\ d.ok => /\ d.comment = rest.comment
                               /\ d.fromLine = rest.fromLine + 1
                               /\ d.toLine = rest.toLine + 1

\* C18's case: the first line is blank and a comment is found below it.
C18_Witness ==
    \E i \in Calls :
        /\ BlankFirst(LinesOf(calls[i].source))
        /\ calls[i].det.ok
        /\ calls[i].det.fromLine >= 1

\* C19: a found comment has 0 <= fromLine < toLine <= number of lines; a
\* block runs from its opener to its closer, two lines at least; a run of
\* line comments is made of lines that begin with the prefix once trimmed,
\* and the line at toLine, if there is one, does not.
C19_Extent ==
    \A i \in LastCall :
        \A d \in {calls[i].det}, lines \in {LinesOf(calls[i].source)} :
            d.ok =>
            /\ 0 <= d.fromLine
            /\ d.fromLine < d.toLine
            /\ d.toLine <= Len(lines)
            /\ IsBlock(lines, d) =>
                /\ TrimSpace(lines[d.toLine]) = lang.multiEnd
                /\ d.toLine - d.fromLine >= 2
            /\ IsRun(lines, d) =>
                /\ lang.single # <<>>
                /\ \A k \in (d.fromLine + 1)..d.toLine :
                      HasPrefix(TrimSpace(lines[k]), lang.single)
                /\ d.toLine < Len(lines) =>
                      ~HasPrefix(TrimSpace(lines[d.toLine + 1]), lang.single)

\* C19's case: a block whose closer follows its opener at once, found below
\* the first line of the source.
C19_Witness ==
    \E i \in Calls :
        /\ IsBlock(LinesOf(calls[i].source), calls[i].det)
        /\ calls[i].det.fromLine > 0
        /\ calls[i].det.toLine - calls[i].det.fromLine = 2

\* C20: whenever process reports a change, the bytes it wrote differ from
\* the bytes of the source, so that a file that already carries the notice
\* is not written back.
C20_RealChange ==
    \A i \in Calls : calls[i].ok => calls[i].written # calls[i].source

\* Whether mainErr has no notice to apply: copyright.go cannot be read, or
\* holds no comment.
NoNotice == ~readable \/ ~firstComment(copyrightGo, LangGo).ok

\* C12: when copyright.go cannot be read or holds no comment, mainErr
\* returns an error; processDir is never entered, and no file of the tree
\* is listed, read or written.
C12_FatalBeforeWrite ==
    NoNotice =>
        /\ pc \in {"main", "failed"}
        /\ pc = "failed" =>
              err = IF readable THEN "no comment found in copyright.go"
                    ELSE "unable to read copyright.go"
        /\ stack = <<>>
        /\ ops = <<>>
        /\ runs = 0
        /\ disk \in TreeDisks

\* C12's case: mainErr has returned because copyright.go cannot be read.
C12_Witness == pc = "failed" /\ ~readable

\* Whether the k-th entry of ops is the look at a directory entry.
Considered(k) == ops[k].op \in {"ignore", "collect", "disregard", "read"}

\* The index of the last entry of ops that wrote to path, 0 for none.
LastWrite(path) ==
    LET ws == {k \in 1..Len(ops) : ops[k].op = "write" /\ ops[k].path = path}
    IN  IF ws = {} THEN 0 ELSE CHOOSE k \in ws : \A m \in ws : m <= k

\* C13: a file is written right after it was read, before any other entry
\* is looked at; a failure of listing, reading or writing ends the run at
\* once, so that nothing is done after it; and a file written with success
\* keeps the bytes written.
C13_StopAtFirstFailure ==
    /\ \A k \in 1..Len(ops) :
        ops[k].op = "write" =>
            /\ k > 1
            /\ ops[k - 1] = Op("read", ops[k].path, TRUE, <<>>)
    /\ \A k \in 1..Len(ops) :
        ~ops[k].ok =>
            /\ k = Len(ops)
            /\ pc = "failed"
            /\ stack = <<>>
            /\ err # ""
    /\ \A path \in DOMAIN disk :
        (LastWrite(path) # 0 /\ ops[LastWrite(path)].ok) =>
            disk[path] = ops[LastWrite(path)].bytes

\* C13's case: a file was written, and a later operation failed.
C13_Witness ==
    /\ pc = "failed"
    /\ \E k \in 1..Len(ops) :
        /\ ops[k].op = "write"
        /\ ops[k].ok
        /\ k < Len(ops)
        /\ ~ops[Len(ops)].ok
        /\ ops[Len(ops)].path # ops[k].path

\* Whether the last pattern of copyright.go that matches path excludes it.
LastMatchExcludes(path) ==
    LET ps == Patterns(copyrightGo)
        ms == {k \in 1..Len(ps) : MatchString(ps[k].Exp, Slash \o path)}
    IN  /\ ms # {}
        /\ ps[CHOOSE k \in ms : \A m \in ms : m <= k].Op = "-"

\* The directories above a path.
Ancestors(path) ==
    {SubSeq(path, 1, k - 1) : k \in {m \in 1..Len(path) : path[m] = "/"}}

\* Nothing is done to a directory that the patterns exclude, nor beneath it.
NothingBeneathIgnored ==
    \A k \in 1..Len(ops) :
        /\ \A d \in Ancestors(ops[k].path) : ~LastMatchExcludes(d)
        /\ (ops[k].op \in {"list", "skip"} /\ ops[k].path # Dot) =>
              ~LastMatchExcludes(ops[k].path)

\* C14 (as stated): an entry is ignored if and only if the last pattern
\* that matches its path is an exclusion, and nothing is done beneath an
\* ignored directory.
C14_LastMatchWins ==
    /\ \A k \in 1..Len(ops) :
        Considered(k) =>
            (ops[k].op = "ignore" <=> LastMatchExcludes(ops[k].path))
    /\ NothingBeneathIgnored

\* C14 (amended): an entry is ignored if and only if it is the copyright.go
\* of the root or the last pattern that matches its path is an exclusion,
\* and nothing is done beneath an ignored directory.
C14_LastMatchWinsButNotice ==
    /\ \A k \in 1..Len(ops) :
        Considered(k) =>
            (ops[k].op = "ignore" <=>
                (ops[k].path = NameCopyright \/ LastMatchExcludes(ops[k].path)))
    /\ NothingBeneathIgnored

\* C14's case: a run is through in which the directory sub was ignored
\* although a later inclusion is the last pattern to match sub/c.go.
C14_Witness ==
    /\ pc = "main"
    /\ runs > 0
    /\ \E k \in 1..Len(ops) : ops[k].op = "ignore" /\ ops[k].path = NameSub
    /\ \E p \in 1..Len(Patterns(copyrightGo)) :
        /\ Patterns(copyrightGo)[p].Op = "+"
        /\ MatchString(Patterns(copyrightGo)[p].Exp,
                       Slash \o PathJoin(NameSub, NameC))
    /\ ~LastMatchExcludes(PathJoin(NameSub, NameC))

====
